---------------------------- MODULE Spec2Model ----------------------------
(***************************************************************************)
(* Model of gaigher/pv-scanner (src/pv-scanner.py): the GS1 variable-      *)
(* weight decoders formater_ligne, extraire_dlc_from_scan and              *)
(* valeur_formatee_vers_float, and the table window that stores their      *)
(* results and aggregates the weights (FenetrePrincipalePV).               *)
(*                                                                         *)
(* A text is a sequence of one-character strings, so that slicing,         *)
(* trimming and searching are computed as the Python code computes them.   *)
(* Python's None is the one-element sequence <<"None">>, which is no text  *)
(* (its element is not a character).                                       *)
(***************************************************************************)
EXTENDS Integers, Sequences, FiniteSets, TLC

\* ------------------------------------------------------------------------
\* Python values and string primitives
\* ------------------------------------------------------------------------

None == <<"None">>

\* A result that has not been computed yet.
Pending == <<"Pending">>

Digits == {"0", "1", "2", "3", "4", "5", "6", "7", "8", "9"}

DigitVal(c) ==
    CASE c = "0" -> 0 [] c = "1" -> 1 [] c = "2" -> 2 [] c = "3" -> 3
      [] c = "4" -> 4 [] c = "5" -> 5 [] c = "6" -> 6 [] c = "7" -> 7
      [] c = "8" -> 8 [] c = "9" -> 9

DigitChar(n) ==
    CASE n = 0 -> "0" [] n = 1 -> "1" [] n = 2 -> "2" [] n = 3 -> "3"
      [] n = 4 -> "4" [] n = 5 -> "5" [] n = 6 -> "6" [] n = 7 -> "7"
      [] n = 8 -> "8" [] n = 9 -> "9"

SetMin(S) == CHOOSE x \in S : \A y \in S : x <= y

SetMax(S) == CHOOSE x \in S : \A y \in S : x >= y

\* The whitespace of the model's alphabet (str.strip() removes whitespace).
IsSpace(c) == c = " "

\* str.strip(): the text without its leading and trailing whitespace.
RECURSIVE strip(_)
strip(s) ==
    IF s = <<>> THEN s
    ELSE IF IsSpace(s[1]) THEN strip(Tail(s))
    ELSE IF IsSpace(s[Len(s)]) THEN strip(SubSeq(s, 1, Len(s) - 1))
    ELSE s

\* Python's s[a:b] for 0 <= a <= b (0-indexed, b exclusive, clipped to len(s)).
Slice(s, a, b) ==
    LET hi == IF b < Len(s) THEN b ELSE Len(s)
    IN  IF a + 1 > hi THEN <<>> ELSE SubSeq(s, a + 1, hi)

\* Python's s[a:].
SliceFrom(s, a) == Slice(s, a, Len(s))

\* str.startswith(p).
startswith(s, p) == Len(s) >= Len(p) /\ SubSeq(s, 1, Len(p)) = p

\* Python truthiness of an Optional[str]: None and "" are falsy.
Truthy(v) == v # None /\ v # <<>>

\* ------------------------------------------------------------------------
\* formater_ligne (WeightDecoder)
\* ------------------------------------------------------------------------

\* InsererVirgule with the comma put after the whole run.
InsererVirguleFin(n, k) ==
    IF Len(n) > k THEN n \o <<",">> ELSE None

\* The lambdas of formats_map: the comma goes after the first k characters
\* of the digit run, which must be longer than k.
InsererVirgule(n, k) ==
    IF Len(n) > k THEN Slice(n, 0, k) \o <<",">> \o SliceFrom(n, k) ELSE None

\* formats_map reading the code's last digit as the comma's position.
formats_map_inverse(prefixe, n) ==
    CASE prefixe = <<"3", "1", "0", "0">> -> n
      [] prefixe = <<"3", "1", "0", "1">> -> InsererVirgule(n, 1)
      [] prefixe = <<"3", "1", "0", "2">> -> InsererVirgule(n, 2)
      [] prefixe = <<"3", "1", "0", "3">> -> InsererVirgule(n, 3)
      [] prefixe = <<"3", "1", "0", "4">> -> InsererVirgule(n, 4)
      [] prefixe = <<"3", "1", "0", "5">> -> InsererVirgule(n, 5)
      [] OTHER -> None

\* formats_map.get(prefixe), applied to nombre; a missing key gives None.
formats_map(prefixe, n) ==
    CASE prefixe = <<"3", "1", "0", "0">> -> n
      [] prefixe = <<"3", "1", "0", "1">> -> InsererVirgule(n, 5)
      [] prefixe = <<"3", "1", "0", "2">> -> InsererVirgule(n, 4)
      [] prefixe = <<"3", "1", "0", "3">> -> InsererVirgule(n, 3)
      [] prefixe = <<"3", "1", "0", "4">> -> InsererVirgule(n, 2)
      [] prefixe = <<"3", "1", "0", "5">> -> InsererVirgule(n, 1)
      [] OTHER -> None

\* Extrait13 reading the five characters one place too early.
Extrait13Decale(chaine) ==
    LET extrait == Slice(chaine, 6, 11)
    IN  IF Len(extrait) >= 5
        THEN Slice(extrait, 0, 2) \o <<",">> \o SliceFrom(extrait, 2)
        ELSE None

\* Extrait13 keeping the seven characters before the weight.
Extrait13AvecPrefixe(chaine) ==
    LET extrait == Slice(chaine, 7, 12)
    IN  IF Len(extrait) >= 5
        THEN Slice(chaine, 0, 7) \o Slice(extrait, 0, 2) \o <<",">> \o SliceFrom(extrait, 2)
        ELSE None

\* The 13-character rule: characters 7..11, comma after the second.
Extrait13(chaine) ==
    LET extrait == Slice(chaine, 7, 12)
    IN  IF Len(extrait) >= 5
        THEN Slice(extrait, 0, 2) \o <<",">> \o SliceFrom(extrait, 2)
        ELSE None

\* The 310x rule: the segment at 16..25, its 4-character code, its digit run.
Segment310(chaine) ==
    LET sous_chaine == Slice(chaine, 16, 26)
    IN  IF ~startswith(sous_chaine, <<"3", "1", "0">>)
        THEN None
        ELSE formats_map(Slice(sous_chaine, 0, 4), SliceFrom(sous_chaine, 4))

\* formater_ligne letting a 25-character text through to the 310x rule.
formater_ligne_25(ligne) ==
    IF ligne = None THEN None
    ELSE LET chaine == strip(ligne)
         IN  IF Len(chaine) = 13 THEN Extrait13(chaine)
             ELSE IF Len(chaine) < 25 THEN None
             ELSE Segment310(chaine)

formater_ligne(ligne) ==
    IF ligne = None THEN None
    ELSE LET chaine == strip(ligne)
         IN  IF Len(chaine) = 13 THEN Extrait13(chaine)
             ELSE IF Len(chaine) < 26 THEN None
             ELSE Segment310(chaine)

\* ------------------------------------------------------------------------
\* valeur_formatee_vers_float (ValueNormalizer)
\*
\* A float is modelled as an exact decimal [hi, lo] = hi + lo / Echelle with
\* 0 <= lo < Echelle (hi is the floor, so -1.5 is hi = -2, lo = Echelle / 2).
\* The texts the model parses have at most Decimales decimals and 9 integer
\* digits (TLC's integers are 32-bit), which this representation holds
\* exactly.
\* ------------------------------------------------------------------------

Decimales == 5

RECURSIVE Pow10(_)
Pow10(k) == IF k = 0 THEN 1 ELSE 10 * Pow10(k - 1)

Echelle == Pow10(Decimales)

Zero == [hi |-> 0, lo |-> 0]

\* float() refusing its argument (ValueError).
ValueError == [hi |-> 0, lo |-> -1]

\* A value that has not been computed yet.
PendingValue == [hi |-> 0, lo |-> -2]

Neg(v) ==
    IF v.lo = 0 THEN [hi |-> -v.hi, lo |-> 0]
    ELSE [hi |-> -v.hi - 1, lo |-> Echelle - v.lo]

Plus(a, b) ==
    LET l == a.lo + b.lo
    IN  IF l >= Echelle THEN [hi |-> a.hi + b.hi + 1, lo |-> l - Echelle]
        ELSE [hi |-> a.hi + b.hi, lo |-> l]

\* a < b
Lt(a, b) == a.hi < b.hi \/ (a.hi = b.hi /\ a.lo < b.lo)

AllDigits(s) == \A i \in 1..Len(s) : s[i] \in Digits

\* The number a run of decimal digits denotes.
RECURSIVE IntVal(_)
IntVal(ds) ==
    IF ds = <<>> THEN 0
    ELSE 10 * IntVal(SubSeq(ds, 1, Len(ds) - 1)) + DigitVal(ds[Len(ds)])

\* The digits after the decimal point, in units of 1 / Echelle.
FracVal(ds) == IntVal(ds) * Pow10(Decimales - Len(ds))

\* str.replace(",", ".").
replace_virgule(s) == [i \in 1..Len(s) |-> IF s[i] = "," THEN "." ELSE s[i]]

\* float(chaine) on an unsigned literal: digits, digits "." [digits], "." digits.
FloatSansSigne(s) ==
    LET points == {i \in 1..Len(s) : s[i] = "."}
    IN  IF points = {}
        THEN IF s # <<>> /\ AllDigits(s)
             THEN [hi |-> IntVal(s), lo |-> 0] ELSE ValueError
        ELSE LET p == SetMin(points)
                 ent == SubSeq(s, 1, p - 1)
                 dec == SubSeq(s, p + 1, Len(s))
             IN  IF AllDigits(ent) /\ AllDigits(dec) /\ Len(ent) + Len(dec) > 0
                 THEN [hi |-> IntVal(ent), lo |-> FracVal(dec)]
                 ELSE ValueError

\* float(chaine): an optional sign, then the literal; no inner whitespace.
\* (Exponents, "inf", "nan" and "_" need characters the model's alphabet
\* does not have.)
float(s) ==
    IF s # <<>> /\ s[1] \in {"-", "+"}
    THEN LET v == FloatSansSigne(SliceFrom(s, 1))
         IN  IF v = ValueError THEN ValueError
             ELSE IF s[1] = "-" THEN Neg(v) ELSE v
    ELSE FloatSansSigne(s)

\* FloatOuZero without the except clause: the ValueError gets out.
FloatSansExcept(chaine) == float(chaine)

\* try: return float(chaine) / except ValueError: return 0.0
FloatOuZero(chaine) ==
    LET v == float(chaine) IN IF v = ValueError THEN Zero ELSE v

valeur_formatee_vers_float(valeur) ==
    IF valeur = None THEN Zero
    ELSE LET chaine == strip(valeur)
         IN  IF chaine = <<>> THEN Zero
             ELSE FloatOuZero(replace_virgule(chaine))

\* The texts whose value the exact decimals hold: at most 9 characters
\* before the decimal point and Decimales after it.
Representable(valeur) ==
    \/ valeur = None
    \/ /\ Len(strip(valeur)) <= 10 + Decimales
       /\ LET s == replace_virgule(strip(valeur))
              points == {i \in 1..Len(s) : s[i] = "."}
              p == IF points = {} THEN Len(s) + 1 ELSE SetMin(points)
          IN  p - 1 <= 9 /\ Len(s) - p <= Decimales

\* ------------------------------------------------------------------------
\* extraire_dlc_from_scan (ExpiryDecoder)
\* ------------------------------------------------------------------------

\* re_search_15 taking the last match instead of the first.
re_search_15_dernier(reste) ==
    LET hits == {p \in 1..(Len(reste) - 7) :
                    /\ reste[p] = "1"
                    /\ reste[p + 1] = "5"
                    /\ \A k \in 2..7 : reste[p + k] \in Digits}
    IN  IF hits = {} THEN None
        ELSE LET p == SetMax(hits) IN SubSeq(reste, p + 2, p + 7)

\* re.search(r"15(\d{6})", reste): group 1 of the leftmost match, or None.
re_search_15(reste) ==
    LET hits == {p \in 1..(Len(reste) - 7) :
                    /\ reste[p] = "1"
                    /\ reste[p + 1] = "5"
                    /\ \A k \in 2..7 : reste[p + k] \in Digits}
    IN  IF hits = {} THEN None
        ELSE LET p == SetMin(hits) IN SubSeq(reste, p + 2, p + 7)

\* calendar: leap years and the days of each month, as datetime checks them.
is_leap(annee) ==
    annee % 4 = 0 /\ (annee % 100 # 0 \/ annee % 400 = 0)

\* days_in_month allowing 31 days in every month.
days_in_month_31(annee, mois) == 31

days_in_month(annee, mois) ==
    CASE mois = 2 -> IF is_leap(annee) THEN 29 ELSE 28
      [] mois \in {4, 6, 9, 11} -> 30
      [] OTHER -> 31

\* datetime(annee, mois, jour) refusing its arguments (ValueError).
DateError == [year |-> 0, month |-> 0, day |-> 0]

\* datetime(annee, mois, jour): the date, or ValueError when it is none.
datetime(annee, mois, jour) ==
    IF /\ annee \in 1..9999
       /\ mois \in 1..12
       /\ jour \in 1..days_in_month(annee, mois)
    THEN [year |-> annee, month |-> mois, day |-> jour]
    ELSE DateError

\* f"{n:02d}"
fmt02d(n) ==
    IF n < 100 THEN <<DigitChar(n \div 10), DigitChar(n % 10)>>
    ELSE <<DigitChar(n \div 100), DigitChar((n \div 10) % 10), DigitChar(n % 10)>>

\* f"{n:04d}" for a year (1..9999)
fmt04d(n) ==
    <<DigitChar(n \div 1000), DigitChar((n \div 100) % 10),
      DigitChar((n \div 10) % 10), DigitChar(n % 10)>>

\* int(yymmjj[..]), datetime(2000 + aa, mois, jour) in the try block and the
\* f-string of the result; an exception gives None.
DateDepuisYYMMJJ(yymmjj) ==
    LET aa == IntVal(Slice(yymmjj, 0, 2))
        mois == IntVal(Slice(yymmjj, 2, 4))
        jour == IntVal(Slice(yymmjj, 4, 6))
        annee == 2000 + aa
        date_obj == datetime(annee, mois, jour)
    IN  IF date_obj = DateError THEN None
        ELSE fmt02d(date_obj.day) \o <<"/">> \o fmt02d(date_obj.month)
                 \o <<"/">> \o fmt04d(date_obj.year)

\* extraire_dlc_from_scan searching the whole text, whatever its length.
extraire_dlc_sans_offset(texte) ==
    IF texte = None THEN None
    ELSE LET yymmjj == re_search_15(strip(texte))
         IN  IF yymmjj = None THEN None ELSE DateDepuisYYMMJJ(yymmjj)

extraire_dlc_from_scan(texte) ==
    IF texte = None THEN None
    ELSE LET texte_nettoye == strip(texte)
         IN  IF Len(texte_nettoye) <= 26 THEN None
             ELSE LET yymmjj == re_search_15(SliceFrom(texte_nettoye, 26))
                  IN  IF yymmjj = None THEN None
                      ELSE DateDepuisYYMMJJ(yymmjj)

\* ------------------------------------------------------------------------
\* The scanned texts the decoders are applied to
\* ------------------------------------------------------------------------

\* Longest text of the exhaustive family (every text over Alphabet).
MaxShort == 4

\* Most whitespace characters put before and after a text.
MaxPad == 1

Alphabet == {"0", "1", ",", ".", "-", " ", "x"}

Pad(k) == [i \in 1..k |-> " "]

Entoure(S) == {Pad(a) \o s \o Pad(b) : s \in S, a \in 0..MaxPad, b \in 0..MaxPad}

\* A text and the texts that differ from it in one character.
Variantes(base, chars) ==
    {base} \cup {[base EXCEPT ![i] = c] : i \in 1..Len(base), c \in chars}

Courts == UNION {[1..k -> Alphabet] : k \in 0..MaxShort}

\* AI 01 and a GTIN-14: the 16 characters before the weight segment.
Prefixe16 ==
    <<"0", "1", "0", "9", "8", "7", "6", "5", "4", "3", "2", "1", "0", "9", "8", "7">>

Run6 == <<"1", "2", "3", "4", "5", "6">>

Run6Fin15 == <<"1", "2", "3", "4", "1", "5">>

AI15 == <<"1", "5">>

Code3103 == <<"3", "1", "0", "3">>

\* A full scan: GTIN, weight segment 3103, expiry segment 15 (28/02/2023).
Canonique == Prefixe16 \o Code3103 \o Run6 \o AI15 \o <<"2", "3", "0", "2", "2", "8">>

\* Every prefix of the full scan: all trimmed lengths 0..34.
Tronques == {SubSeq(Canonique, 1, n) : n \in 0..Len(Canonique)}

AutresChars == {",", "x", " ", "-", "0"}

\* 13-character texts (EAN-13 with the weight at 7..11).
Treize ==
    {<<"1", "2", "3", "4", "5", "6", "7">> \o w \o <<"3">> :
        w \in Variantes(<<"8", "9", "0", "1", "2">>, AutresChars)}
    \cup {<<"1", "1", "5", "2", "3", "0", "2", "2", "8", "1", "2", "3", "4">>}

Codes ==
    {<<"3", "1", "0", c>> : c \in Digits \cup {"x", ",", " "}}
    \cup {<<"3", "2", "0", "3">>, <<"0", "3", "1", "0">>, <<"3", "1", "1", "3">>}

Runs == Variantes(Run6, AutresChars) \cup {Run6Fin15}

QueuesPoids == {<<>>, <<"9">>, AI15 \o <<"2", "3", "0", "2", "2", "8">>}

\* Texts with a segment at 16..25: every code, every run.
AvecSegment ==
    {Prefixe16 \o c \o r \o q : c \in Codes, r \in Runs, q \in QueuesPoids}

AA == {<<"0", "0">>, <<"2", "3">>, <<"2", "4">>, <<"9", "9">>}

MM == {<<"0", "0">>, <<"0", "2">>, <<"0", "4">>, <<"1", "2">>, <<"1", "3">>}

JJ == {<<"0", "0">>, <<"2", "8">>, <<"2", "9">>, <<"3", "0">>, <<"3", "1">>, <<"3", "2">>}

\* The six characters after "15": dates, impossible dates, damaged digits.
SixApres15 ==
    {a \o m \o j : a \in AA, m \in MM, j \in JJ}
    \cup Variantes(<<"2", "3", "0", "2", "2", "8">>, {"x", " "})
    \cup {<<"2", "3", "0", "2", "2">>}

Avant15 ==
    {<<>>, <<"9">>, <<"x">>, <<"1">>, AI15,
     AI15 \o <<"9", "9", "1", "3", "0", "1">>, AI15 \o <<"2", "3", "x">>}

Apres15 == {<<>>, <<"7">>, AI15 \o <<"2", "4", "0", "1", "0", "1">>}

\* Texts with an expiry segment somewhere after the weight segment.
AvecDLC ==
    {Prefixe16 \o Code3103 \o r \o av \o AI15 \o d \o ap :
        r \in {Run6, Run6Fin15}, av \in Avant15, d \in SixApres15, ap \in Apres15}

\* 26 characters holding "15230228" before offset 26.
DLCTropTot ==
    AI15 \o <<"2", "3", "0", "2", "2", "8">> \o SubSeq(Prefixe16, 1, 8) \o Code3103 \o Run6

UnVirguleCinq == <<"1", ",", "5">>

Inputs ==
    {None} \cup Courts \cup {UnVirguleCinq} \cup Entoure(Tronques)
    \cup Entoure(Treize) \cup Entoure(AvecSegment) \cup AvecDLC
    \cup Entoure({DLCTropTot})

\* ------------------------------------------------------------------------
\* TablePV and FenetrePrincipalePV: the table of weights and expiry dates
\*
\* The table is a sequence of rows [poids, dlc], the items of columns 0 and
\* 1: a text, or None where the cell has no item.
\* ------------------------------------------------------------------------

Row(p, d) == [poids |-> p, dlc |-> d]

\* item is None or item.text().strip() == ""
CelluleVide(cellule) == cellule = None \/ strip(cellule) = <<>>

\* assurer_ligne_vide reading column 1, the DLC, of the last row.
assurer_ligne_vide_colonne1(tab) ==
    IF Len(tab) = 0 THEN <<Row(None, <<>>)>>
    ELSE IF ~CelluleVide(tab[Len(tab)].dlc) THEN Append(tab, Row(None, <<>>))
    ELSE tab

\* TablePV.assurer_ligne_vide
assurer_ligne_vide(tab) ==
    IF Len(tab) = 0 THEN <<Row(None, <<>>)>>
    ELSE IF ~CelluleVide(tab[Len(tab)].poids) THEN Append(tab, Row(None, <<>>))
    ELSE tab

\* The first row whose weight cell is blank; a new row when there is none.
ligne_cible(tab) ==
    LET vides == {r \in 1..Len(tab) : CelluleVide(tab[r].poids)}
    IN  IF vides = {} THEN Len(tab) + 1 ELSE SetMin(vides)

\* The weight cell of a scanned text: formatted when possible, else as is.
CellulePoids(texte) ==
    LET f == formater_ligne(texte) IN IF Truthy(f) THEN f ELSE texte

\* The DLC cell of a scanned text: the date, else the empty text.
CelluleDLC(texte) ==
    LET d == extraire_dlc_from_scan(texte) IN IF Truthy(d) THEN d ELSE <<>>

\* inserer_ligne_scannee up to assurer_ligne_vide, for a non-blank texte.
InsererDansTable(tab, texte) ==
    LET r == ligne_cible(tab)
        grande == IF r > Len(tab) THEN Append(tab, Row(None, None)) ELSE tab
    IN  assurer_ligne_vide(
            [grande EXCEPT ![r] = Row(CellulePoids(texte), CelluleDLC(texte))])

\* The thresholds of mettre_a_jour_total: 50 and 0.01.
Seuil50 == [hi |-> 50, lo |-> 0]

Seuil001 == [hi |-> 0, lo |-> Pow10(Decimales - 2)]

\* EstErreur with "valeur >= 50": a weight of exactly 50 is flagged.
EstErreurDes50(v) == ~Lt(v, Seuil50) \/ (Lt(Zero, v) /\ Lt(v, Seuil001))

\* valeur > 50 or (valeur > 0 and valeur < 0.01)
EstErreur(v) == Lt(Seuil50, v) \/ (Lt(Zero, v) /\ Lt(v, Seuil001))

\* The value of a non-blank weight text: formatted first when possible.
ValeurTexte(texte) ==
    LET f == formater_ligne(texte)
    IN  IF Truthy(f) THEN valeur_formatee_vers_float(f)
        ELSE valeur_formatee_vers_float(texte)

\* PasTotal leaving a suspect weight out of the total.
PasTotalSansErreur(acc, cellule, r) ==
    IF CelluleVide(cellule) THEN acc
    ELSE LET v == ValeurTexte(strip(cellule))
         IN  IF EstErreur(v)
             THEN [total |-> acc.total,
                   premiere |-> IF acc.premiere = 0 THEN r ELSE acc.premiere]
             ELSE [total |-> Plus(acc.total, v), premiere |-> acc.premiere]

\* One turn of the loop of mettre_a_jour_total on row r (numbered from 1);
\* premiere = 0 stands for premiere_ligne_erreur = None.
PasTotal(acc, cellule, r) ==
    IF CelluleVide(cellule) THEN acc
    ELSE LET v == ValeurTexte(strip(cellule))
         IN  [total |-> Plus(acc.total, v),
              premiere |-> IF EstErreur(v) /\ acc.premiere = 0
                           THEN r ELSE acc.premiere]

RECURSIVE BoucleTotal(_, _, _)
BoucleTotal(tab, r, acc) ==
    IF r > Len(tab) THEN acc
    ELSE BoucleTotal(tab, r + 1, PasTotal(acc, tab[r].poids, r))

\* mettre_a_jour_total: the total shown in champ_total and the row named by
\* etiquette_commentaire (0: no message).
mettre_a_jour_total(tab) == BoucleTotal(tab, 1, [total |-> Zero, premiere |-> 0])

\* lors_changement_cellule on a blank cell: clearing a weight clears its DLC.
ChangementVide(tab, r, c) ==
    IF c = 0 THEN [tab EXCEPT ![r].dlc = <<>>] ELSE tab

\* lors_changement_cellule on a non-blank cell of text texte.
ChangementTexte(tab, r, c, texte) ==
    IF c # 0 THEN tab
    ELSE LET f == formater_ligne(texte)
             d == extraire_dlc_from_scan(texte)
             t1 == IF Truthy(f) THEN [tab EXCEPT ![r].poids = f] ELSE tab
         IN  IF Truthy(d) THEN [t1 EXCEPT ![r].dlc = d]
             ELSE IF t1[r].dlc = None THEN [t1 EXCEPT ![r].dlc = <<>>]
             ELSE t1

\* The user's edit puts texte in cell (r, c); lors_changement_cellule follows.
lors_changement_cellule(tab, r, c, texte) ==
    LET edite == IF c = 0 THEN [tab EXCEPT ![r].poids = texte]
                 ELSE [tab EXCEPT ![r].dlc = texte]
    IN  IF strip(texte) = <<>> THEN ChangementVide(edite, r, c)
        ELSE ChangementTexte(edite, r, c, texte)

\* One turn of the loop of TablePV.keyPressEvent: the pasted line origine
\* goes to row r, as it is when formater_ligne gives nothing.
CollerLigne(tab, r, origine) ==
    LET f == formater_ligne(origine)
    IN  [tab EXCEPT ![r] = Row(IF Truthy(f) THEN f ELSE origine, CelluleDLC(origine))]

RECURSIVE BoucleColler(_, _, _)
BoucleColler(tab, r, lignes) ==
    IF lignes = <<>> THEN tab
    ELSE BoucleColler(CollerLigne(tab, r, Head(lignes)), r + 1, Tail(lignes))

\* TablePV.keyPressEvent on Ctrl+V with several lines in the clipboard,
\* up to assurer_ligne_vide: setRowCount adds rows without items, the lines
\* go to the rows from ligne_depart (numbered from 0) on.
CollerDansTable(tab, ligne_depart, lignes) ==
    LET necessaires == ligne_depart + Len(lignes) - Len(tab)
        grande == IF necessaires > 0
                  THEN tab \o [i \in 1..necessaires |-> Row(None, None)]
                  ELSE tab
    IN  assurer_ligne_vide(BoucleColler(grande, ligne_depart + 1, lignes))

\* item.text(), "" where the cell has no item.
TexteCellule(cellule) == IF cellule = None THEN <<>> ELSE cellule

\* csv.writer on one field: quoted when it holds the delimiter (the quote
\* character and line ends are not in the model's alphabet).
csv_champ(champ) ==
    IF \E i \in 1..Len(champ) : champ[i] = ","
    THEN <<"\"">> \o champ \o <<"\"">>
    ELSE champ

\* writer.writerow([a, b]): one line of the file, without its line end.
writerow(rangee) == csv_champ(rangee[1]) \o <<",">> \o csv_champ(rangee[2])

\* ["Poids en kg", "DLC"]
EnTete ==
    <<<<"P", "o", "i", "d", "s", " ", "e", "n", " ", "k", "g">>, <<"D", "L", "C">>>>

\* PasCSV leaving a row out when either cell is blank.
PasCSVOu(lignes, rangee) ==
    LET texte_poids == TexteCellule(rangee.poids)
        texte_dlc == TexteCellule(rangee.dlc)
    IN  IF strip(texte_poids) = <<>> \/ strip(texte_dlc) = <<>> THEN lignes
        ELSE Append(lignes, <<texte_poids, texte_dlc>>)

\* One turn of the loop of creer_csv_fichier.
PasCSV(lignes, rangee) ==
    LET texte_poids == TexteCellule(rangee.poids)
        texte_dlc == TexteCellule(rangee.dlc)
    IN  IF strip(texte_poids) = <<>> /\ strip(texte_dlc) = <<>> THEN lignes
        ELSE Append(lignes, <<texte_poids, texte_dlc>>)

RECURSIVE BoucleCSV(_, _, _)
BoucleCSV(tab, r, lignes) ==
    IF r > Len(tab) THEN lignes
    ELSE BoucleCSV(tab, r + 1, PasCSV(lignes, tab[r]))

\* creer_csv_fichier: the lines of the file written, the header first.
creer_csv_fichier(tab) ==
    LET lignes == BoucleCSV(tab, 1, <<>>)
    IN  <<writerow(EnTete)>> \o [i \in 1..Len(lignes) |-> writerow(lignes[i])]

\* tout_effacer: one row, its DLC item empty.
TableVide == assurer_ligne_vide(<<Row(None, <<>>)>>)

\* ------------------------------------------------------------------------
\* The decoders applied to one scanned text
\* ------------------------------------------------------------------------

\* ligne .. valeur: a scanned text and what each decoder returns for it;
\* valeur_poids: what valeur_formatee_vers_float returns for formate, the
\* weight formater_ligne decoded (mettre_a_jour_total, lines 491-493);
\* reformate: what formater_ligne returns for formate, the text of a weight
\* cell it filled (mettre_a_jour_total, line 491).
\* table .. timers: the window's table, the total and the row number its
\* message shows (0: none), and the QTimer.singleShot(0, ...) calls not yet
\* run; csv: the lines of the file "Créer CSV" wrote last (none: no file).
VARIABLES ligne, formate, dlc, valeur, valeur_poids, reformate,
          table, champ_total, etiquette_commentaire, timers, csv

vars_decode == <<ligne, formate, dlc, valeur, valeur_poids, reformate>>

vars_fenetre == <<table, champ_total, etiquette_commentaire, timers, csv>>

vars == <<ligne, formate, dlc, valeur, valeur_poids, reformate, table, champ_total, etiquette_commentaire, timers, csv>>

\* FenetrePrincipalePV.__init__: one empty row, "Totale : 0.000", no message.
InitFenetre ==
    /\ table = TableVide
    /\ champ_total = Zero
    /\ etiquette_commentaire = 0
    /\ timers = <<>>
    /\ csv = <<>>

InitDecode ==
    /\ ligne \in Inputs
    /\ formate = Pending
    /\ dlc = Pending
    /\ valeur = PendingValue
    /\ valeur_poids = PendingValue
    /\ reformate = Pending
    /\ InitFenetre

AppelFormater ==
    /\ formate = Pending
    /\ formate' = formater_ligne(ligne)
    /\ UNCHANGED <<ligne, dlc, valeur, valeur_poids, reformate>>
    /\ UNCHANGED vars_fenetre

AppelExtraire ==
    /\ dlc = Pending
    /\ dlc' = extraire_dlc_from_scan(ligne)
    /\ UNCHANGED <<ligne, formate, valeur, valeur_poids, reformate>>
    /\ UNCHANGED vars_fenetre

AppelValeur ==
    /\ valeur = PendingValue
    /\ Representable(ligne)
    /\ valeur' = valeur_formatee_vers_float(ligne)
    /\ UNCHANGED <<ligne, formate, dlc, valeur_poids, reformate>>
    /\ UNCHANGED vars_fenetre

\* if formate: valeur = valeur_formatee_vers_float(formate)
AppelValeurFormate ==
    /\ formate # Pending
    /\ Truthy(formate)
    /\ valeur_poids = PendingValue
    /\ valeur_poids' = valeur_formatee_vers_float(formate)
    /\ UNCHANGED <<ligne, formate, dlc, valeur, reformate>>
    /\ UNCHANGED vars_fenetre

\* formate = formater_ligne(texte) on the text of a cell formater_ligne filled
AppelReformater ==
    /\ formate # Pending
    /\ Truthy(formate)
    /\ reformate = Pending
    /\ reformate' = formater_ligne(formate)
    /\ UNCHANGED <<ligne, formate, dlc, valeur, valeur_poids>>
    /\ UNCHANGED vars_fenetre

NextDecode ==
    \/ AppelFormater
    \/ AppelExtraire
    \/ AppelValeur
    \/ AppelValeurFormate
    \/ AppelReformater

SpecDecode == InitDecode /\ [][NextDecode]_vars

\* ------------------------------------------------------------------------
\* The window: scans, manual edits, deferred calls, clearing
\* ------------------------------------------------------------------------

\* Most rows of the table.
MaxLignes == 3

\* Most deferred calls waiting at once.
MaxTimers == 2

EAN13(w) == <<"1", "2", "3", "4", "5", "6", "7">> \o w \o <<"3">>

\* A scan whose weight segment is 3100 and six spaces, with an expiry date.
ScanBlanc3100 ==
    Prefixe16 \o <<"3", "1", "0", "0">> \o Pad(6) \o AI15 \o <<"2", "3", "0", "2", "2", "8">>

\* What the scanner sends: weights 0.005 and 123.456 (with an expiry date),
\* a 3100 segment of spaces, a text that does not decode, a blank line.
ScanTextes ==
    {EAN13(<<"0", "0", "0", "0", "5">>), Canonique, ScanBlanc3100, <<"x">>, <<" ">>}

\* What the user types in a weight cell: nothing, -1 and a space, or a
\* whole scanned code.
TextesPoids == {<<>>, <<"-", "1", " ">>, Canonique}

\* The column the user edits: 0, the weights.
Colonnes == {0}

\* What the clipboard holds when the user pastes in the table: two lines,
\* the weights 50 and 0.01.
Collages ==
    {<<EAN13(<<"5", "0", "0", "0", "0">>), EAN13(<<"0", "0", "0", "1", "0">>)>>}

Cellule(r, c) == IF c = 0 THEN table[r].poids ELSE table[r].dlc

Init ==
    /\ ligne = None
    /\ formate = Pending
    /\ dlc = Pending
    /\ valeur = PendingValue
    /\ valeur_poids = PendingValue
    /\ reformate = Pending
    /\ InitFenetre

\* lors_retour_scan with one line in champ_scan: inserer_ligne_scannee, which
\* ignores a blank text and ends with mettre_a_jour_total.
inserer_ligne_scannee(t) ==
    IF strip(t) = <<>> THEN UNCHANGED vars
    ELSE \E nouvelle \in {InsererDansTable(table, strip(t))} :
            \E agg \in {mettre_a_jour_total(nouvelle)} :
                /\ Len(nouvelle) <= MaxLignes
                /\ table' = nouvelle
                /\ champ_total' = agg.total
                /\ etiquette_commentaire' = agg.premiere
                /\ UNCHANGED <<timers, csv>>
                /\ UNCHANGED vars_decode

Scan == \E t \in ScanTextes : inserer_ligne_scannee(t)

\* TablePV.keyPressEvent: Ctrl+V in the table with several lines in the
\* clipboard, the current row being ligne_depart; signals are blocked, and
\* the handler ends with assurer_ligne_vide and mettre_a_jour_total.
keyPressEvent(ligne_depart, lignes) ==
    \E nouvelle \in {CollerDansTable(table, ligne_depart, lignes)} :
        \E agg \in {mettre_a_jour_total(nouvelle)} :
            /\ Len(nouvelle) <= MaxLignes
            /\ table' = nouvelle
            /\ champ_total' = agg.total
            /\ etiquette_commentaire' = agg.premiere
            /\ UNCHANGED <<timers, csv>>
            /\ UNCHANGED vars_decode

\* The current row is the first or the last one.
Coller ==
    \E ligne_depart \in {0, Len(table) - 1}, lignes \in Collages :
        keyPressEvent(ligne_depart, lignes)

\* The user commits text t in cell (r, c): cellChanged is emitted when the
\* cell changes, and lors_changement_cellule defers assurer_ligne_vide and
\* mettre_a_jour_total.
EditerCellule(r, c, t) ==
    /\ Cellule(r, c) # t
    /\ Len(timers) + 2 <= MaxTimers
    /\ \E nouvelle \in {lors_changement_cellule(table, r, c, t)} :
          /\ Len(assurer_ligne_vide(nouvelle)) <= MaxLignes
          /\ table' = nouvelle
    /\ timers' = timers \o <<"assurer_ligne_vide", "mettre_a_jour_total">>
    /\ UNCHANGED <<champ_total, etiquette_commentaire, csv>>
    /\ UNCHANGED vars_decode

Edition ==
    \E r \in 1..Len(table), c \in Colonnes :
        \E t \in TextesPoids : EditerCellule(r, c, t)

\* The deferred assurer_ligne_vide runs.
TimerAssurerLigneVide ==
    /\ timers # <<>>
    /\ Head(timers) = "assurer_ligne_vide"
    /\ table' = assurer_ligne_vide(table)
    /\ timers' = Tail(timers)
    /\ UNCHANGED <<champ_total, etiquette_commentaire, csv>>
    /\ UNCHANGED vars_decode

\* The deferred mettre_a_jour_total runs.
TimerMettreAJourTotal ==
    /\ timers # <<>>
    /\ Head(timers) = "mettre_a_jour_total"
    /\ \E agg \in {mettre_a_jour_total(table)} :
          /\ champ_total' = agg.total
          /\ etiquette_commentaire' = agg.premiere
    /\ timers' = Tail(timers)
    /\ UNCHANGED <<table, csv>>
    /\ UNCHANGED vars_decode

\* confirmer_et_effacer answered Yes: tout_effacer.
tout_effacer ==
    /\ table' = TableVide
    /\ champ_total' = Zero
    /\ etiquette_commentaire' = 0
    /\ UNCHANGED <<timers, csv>>
    /\ UNCHANGED vars_decode

Next ==
    \/ Scan
    \/ Coller
    \/ Edition
    \/ TimerAssurerLigneVide
    \/ TimerMettreAJourTotal
    \/ tout_effacer

Spec == Init /\ [][Next]_vars

\* ------------------------------------------------------------------------
\* Scanning and exporting: the table filled by scans only, and "Créer CSV"
\* ------------------------------------------------------------------------

\* What the save dialog and the write come to: the dialog is cancelled, the
\* file cannot be opened, the file is written.
Issues == {"annule", "erreur", "ecrit"}

\* lors_clic_creer_csv: no path, or an exception of creer_csv_fichier, ends
\* the handler; after the file is written, mettre_a_jour_total.
lors_clic_creer_csv(issue) ==
    IF issue # "ecrit" THEN UNCHANGED vars
    ELSE \E agg \in {mettre_a_jour_total(table)} :
            /\ csv' = creer_csv_fichier(table)
            /\ champ_total' = agg.total
            /\ etiquette_commentaire' = agg.premiere
            /\ UNCHANGED <<table, timers>>
            /\ UNCHANGED vars_decode

CreerCSV == \E issue \in Issues : lors_clic_creer_csv(issue)

NextScans == Scan \/ CreerCSV

SpecScans == Init /\ [][NextScans]_vars

\* ------------------------------------------------------------------------
\* Properties of the decoders (checked under SpecDecode)
\* ------------------------------------------------------------------------

\* The trimmed input, and what the rules of formater_ligne read in it.
Trimmed == IF ligne = None THEN <<>> ELSE strip(ligne)

\* The four characters at offsets 16..19 of a text of 26 characters or more.
CodeEn16(t) == <<t[17], t[18], t[19], t[20]>>

\* The six characters at offsets 20..25 of a text of 26 characters or more.
RunEn20(t) == <<t[21], t[22], t[23], t[24], t[25], t[26]>>

CodesPoids == {<<"3", "1", "0", c>> : c \in {"0", "1", "2", "3", "4", "5"}}

Virgules(s) == {i \in 1..Len(s) : s[i] = ","}

UneVirguleEntreChiffres(s) ==
    /\ Cardinality(Virgules(s)) = 1
    /\ \E v \in Virgules(s) :
          /\ \E i \in 1..(v - 1) : s[i] \in Digits
          /\ \E j \in (v + 1)..Len(s) : s[j] \in Digits

Exemple13 == <<"1", "2", "3", "4", "5", "6", "7", "8", "9", "0", "1", "2", "3">>

\* The 13-character rule as the claim words it: offsets 7..8, comma, 9..11.
Regle13 ==
    (formate # Pending /\ ligne # None /\ Len(Trimmed) = 13) =>
        formate = <<Trimmed[8], Trimmed[9], ",", Trimmed[10], Trimmed[11], Trimmed[12]>>

\* C2 as stated: for a trimmed length of 13 the result is the characters at
\* offsets 7..8, a comma, the characters at offsets 9..11, and
\* "1234567890123" gives "78,901".
C2_Treize_78901 ==
    /\ Regle13
    /\ (formate # Pending /\ ligne = Exemple13) =>
           formate = <<"7", "8", ",", "9", "0", "1">>

\* C2 amended: for a trimmed length of 13 the result is the characters at
\* offsets 7..8, a comma, the characters at offsets 9..11 (the 310x rule is
\* not consulted), and "1234567890123" gives "89,012".
C2_Treize_89012 ==
    /\ Regle13
    /\ (formate # Pending /\ ligne = Exemple13) =>
           formate = <<"8", "9", ",", "0", "1", "2">>

C2_Witness ==
    /\ Len(ligne) = 15
    /\ Trimmed = Exemple13
    /\ formate = <<"8", "9", ",", "0", "1", "2">>

\* The run with a comma after its first k characters.
VirguleApres(run, k) == SubSeq(run, 1, k) \o <<",">> \o SubSeq(run, k + 1, Len(run))

\* C3: for a trimmed length >= 26 (and not 13) with a code 3100..3105 at
\* offset 16, the result is the six characters at offsets 20..25 with a
\* comma after the 5th, 4th, 3rd, 2nd, 1st for 3101..3105, and unchanged
\* for 3100.
C3_VirguleSelonCode ==
    (formate # Pending /\ ligne # None /\ Len(Trimmed) >= 26 /\ Len(Trimmed) # 13
        /\ CodeEn16(Trimmed) \in CodesPoids) =>
        LET x == DigitVal(Trimmed[20])
            run == RunEn20(Trimmed)
        IN  formate = IF x = 0 THEN run ELSE VirguleApres(run, 6 - x)

C3_Witness ==
    /\ Len(Trimmed) >= 26
    /\ CodeEn16(Trimmed) = <<"3", "1", "0", "2">>
    /\ formate = <<"1", "2", "3", "4", ",", "5", "6">>

\* C4: a match only for a trimmed length of 13, or of 26 or more with a
\* code 3100..3105 at offset 16; any other input (None, empty, shorter, no
\* "310" at offset 16, codes 3106..3109) gives None, a normal result.
C4_MatchSeulementSi ==
    formate # Pending =>
        \/ formate = None
        \/ /\ ligne # None
           /\ \A i \in 1..Len(formate) : formate[i] \in Alphabet \cup Digits
           /\ \/ Len(Trimmed) = 13
              \/ Len(Trimmed) >= 26 /\ CodeEn16(Trimmed) \in CodesPoids

C4_Witness ==
    /\ Len(Trimmed) >= 26
    /\ CodeEn16(Trimmed) = <<"3", "1", "0", "6">>
    /\ AllDigits(Trimmed)
    /\ formate = None

JoursParMois == <<31, 28, 31, 30, 31, 30, 31, 31, 30, 31, 30, 31>>

\* A real calendar date of 2000..2099 (every 4th year of these is leap).
DateReelle(a, m, j) ==
    /\ a \in 2000..2099
    /\ m \in 1..12
    /\ j >= 1
    /\ j <= JoursParMois[m] + (IF m = 2 /\ a % 4 = 0 THEN 1 ELSE 0)

Nombre2(c, d) == 10 * DigitVal(c) + DigitVal(d)

\* The text after offset 26 of the trimmed input.
Reste == IF Len(Trimmed) > 26 THEN SubSeq(Trimmed, 27, Len(Trimmed)) ELSE <<>>

\* The places of the text r where "15" and six digits stand.
Occurrences(r) ==
    {p \in 1..(Len(r) - 7) :
        /\ r[p] = "1" /\ r[p + 1] = "5"
        /\ \A k \in (p + 2)..(p + 7) : r[k] \in Digits}

\* d is DD/MM/YYYY, a real date of 2000..2099.
TexteDateReelle(d) ==
    /\ Len(d) = 10
    /\ d[3] = "/" /\ d[6] = "/"
    /\ \A i \in {1, 2, 4, 5, 7, 8, 9, 10} : d[i] \in Digits
    /\ d[7] = "2" /\ d[8] = "0"
    /\ DateReelle(2000 + Nombre2(d[9], d[10]), Nombre2(d[4], d[5]), Nombre2(d[1], d[2]))

\* C5: every result of extraire_dlc_from_scan is None or DD/MM/YYYY, a real
\* calendar date of 2000..2099 whose digits are those scanned after a "15"
\* (an impossible date is rejected, never moved to another date).
C5_DateReelleOuRien ==
    dlc \notin {Pending, None} =>
        /\ TexteDateReelle(dlc)
        /\ \E p \in Occurrences(Reste) :
              SubSeq(Reste, p + 2, p + 7) = <<dlc[9], dlc[10], dlc[4], dlc[5], dlc[1], dlc[2]>>

C5_Witness ==
    /\ dlc = <<"2", "9", "/", "0", "2", "/", "2", "0", "2", "4">>
    /\ Occurrences(Reste) # {}

\* C6: the result is decided by the first "15" followed by six digits in the
\* trimmed text from offset 26 on: DD/MM/20YY when the digits YYMMDD are a
\* real date, None when they are not or when there is no such place; later
\* places are never used.
C6_PremiereOccurrence ==
    (dlc # Pending /\ ligne # None) =>
        IF Occurrences(Reste) = {} THEN dlc = None
        ELSE LET p == SetMin(Occurrences(Reste))
                 y == SubSeq(Reste, p + 2, p + 7)
             IN  IF DateReelle(2000 + Nombre2(y[1], y[2]), Nombre2(y[3], y[4]),
                               Nombre2(y[5], y[6]))
                 THEN dlc = <<y[5], y[6], "/", y[3], y[4], "/", "2", "0", y[1], y[2]>>
                 ELSE dlc = None

\* Two places hold real dates and the first is the one returned.
C6_Witness ==
    /\ Cardinality(Occurrences(Reste)) >= 2
    /\ SetMin(Occurrences(Reste)) > 1
    /\ dlc = <<"2", "8", "/", "0", "2", "/", "2", "0", "2", "3">>

\* C7: None for every input that is None, empty or of trimmed length <= 26,
\* whatever it holds; a text of trimmed length 26 can give a weight but no
\* expiry date, and a 13-character text gives no expiry date.
C7_PasDeDLCJusqua26 ==
    (dlc # Pending /\ (ligne = None \/ Len(Trimmed) <= 26)) => dlc = None

\* 26 characters holding "15230228": a weight, no expiry date.
C7_Witness ==
    /\ Len(Trimmed) = 26
    /\ Occurrences(Trimmed) # {}
    /\ formate = <<"1", "2", "3", ",", "4", "5", "6">>
    /\ dlc = None

\* The text float() is given: trimmed, commas replaced by points.
TexteFloat == [i \in 1..Len(Trimmed) |-> IF Trimmed[i] = "," THEN "." ELSE Trimmed[i]]

SansSigne(t) == IF t # <<>> /\ t[1] \in {"-", "+"} THEN Tail(t) ELSE t

\* t is a decimal number: an optional sign, digits, at most one point.
EstNombre(t) ==
    LET c == SansSigne(t)
    IN  /\ \A i \in 1..Len(c) : c[i] \in Digits \cup {"."}
        /\ Cardinality({i \in 1..Len(c) : c[i] = "."}) <= 1
        /\ \E i \in 1..Len(c) : c[i] \in Digits

\* The sum of digit * 10^(e - i) over the digits c[i], from < i < to.
RECURSIVE SommePositions(_, _, _, _)
SommePositions(c, from, to, e) ==
    IF from + 1 >= to THEN 0
    ELSE DigitVal(c[from + 1]) * Pow10(e - (from + 1)) + SommePositions(c, from + 1, to, e)

\* The value of the decimal number t, digit by digit.
ValeurDuNombre(t) ==
    LET c == SansSigne(t)
        pts == {i \in 1..Len(c) : c[i] = "."}
        p == IF pts = {} THEN Len(c) + 1 ELSE SetMin(pts)
        v == [hi |-> SommePositions(c, 0, p, p - 1),
              lo |-> SommePositions(c, p, Len(c) + 1, p + Decimales)]
    IN  IF t[1] = "-" THEN Neg(v) ELSE v

\* C8: 0.0 for None, empty and whitespace-only input and for any text that
\* is no number once its commas are points; the parsed number otherwise
\* ("1,5" gives 1.5); never an exception.
C8_NombreOuZero ==
    valeur # PendingValue =>
        /\ valeur # ValueError
        /\ valeur = IF ligne # None /\ EstNombre(TexteFloat)
                    THEN ValeurDuNombre(TexteFloat) ELSE Zero
        /\ ligne = UnVirguleCinq => valeur = [hi |-> 1, lo |-> 5 * Pow10(Decimales - 1)]

C8_Witness ==
    /\ ligne = UnVirguleCinq
    /\ valeur = [hi |-> 1, lo |-> 5 * Pow10(Decimales - 1)]

\* C11: for every input on which formater_ligne returns a WeightString,
\* valeur_formatee_vers_float of that WeightString is a finite number that
\* is not negative.
C11_AllerRetourPositif ==
    valeur_poids # PendingValue =>
        /\ valeur_poids # ValueError
        /\ ~Lt(valeur_poids, Zero)

\* C12: for every input on which formater_ligne returns a WeightString w,
\* formater_ligne(w) is None: w is too short for either rule, so the
\* aggregation pass, which decodes the cell's text again, takes the value
\* of w itself.
C12_DecodageUneFois ==
    reformate # Pending =>
        /\ reformate = None
        /\ Len(formate) \in {6, 7}
        /\ ValeurTexte(formate) = valeur_formatee_vers_float(formate)

C12_Witness ==
    /\ Trimmed = Exemple13
    /\ formate = <<"8", "9", ",", "0", "1", "2">>
    /\ reformate = None

\* ------------------------------------------------------------------------
\* Properties of the aggregate (checked under Spec)
\* ------------------------------------------------------------------------

\* A step of inserer_ligne_scannee on a non-blank text or of a paste in the
\* table, which both end with mettre_a_jour_total: the only steps that
\* change the table, to something else than the cleared table, and leave
\* the deferred calls alone.
ScanInsere == timers' = timers /\ table' # table /\ table' # TableVide

\* A step in which the deferred mettre_a_jour_total runs.
TimerTotalPasse ==
    timers # <<>> /\ Head(timers) = "mettre_a_jour_total" /\ timers' = Tail(timers)

\* A step in which mettre_a_jour_total runs.
TotalRecalcule == ScanInsere \/ TimerTotalPasse

\* The entry's weight field is empty.
PoidsVide(cellule) == cellule = None \/ \A i \in 1..Len(cellule) : cellule[i] = " "

\* ValueNormalizer on the entry's effective weight text: the decoder's
\* output when it matches, the text itself otherwise.
ValeurEntree(cellule) ==
    valeur_formatee_vers_float(
        IF formater_ligne(cellule) # None THEN formater_ligne(cellule) ELSE cellule)

\* Greater than 50, or strictly between 0 and 0.01.
Anormal(v) ==
    \/ v.hi > 50
    \/ v.hi = 50 /\ v.lo > 0
    \/ v.hi = 0 /\ v.lo > 0 /\ 100 * v.lo < Echelle

\* The rows whose weight is anomalous.
LignesAnormales(tab) ==
    {r \in 1..Len(tab) : ~PoidsVide(tab[r].poids) /\ Anormal(ValeurEntree(tab[r].poids))}

\* C9: after each pass, first_anomalous_index is the 1-based position of the
\* earliest entry whose value is > 50 or strictly between 0 and 0.01, none
\* (0) when there is no such entry; 0, 0.01, 50 and negative values are not
\* flagged, and a later, more extreme entry does not replace an earlier one.
C9_PremiereLigneAnormale ==
    [][TotalRecalcule =>
        etiquette_commentaire' =
            IF LignesAnormales(table') = {} THEN 0
            ELSE SetMin(LignesAnormales(table'))]_vars

\* 0.005 in row 1 stays the flagged one when 123.456 follows.
C9_Witness ==
    /\ Len(table) >= 2
    /\ table[1].poids = <<"0", "0", ",", "0", "0", "5">>
    /\ table[2].poids = <<"1", "2", "3", ",", "4", "5", "6">>
    /\ etiquette_commentaire = 1
    /\ champ_total = [hi |-> 123, lo |-> 461 * Pow10(Decimales - 3)]

RECURSIVE SommeEntrees(_)
SommeEntrees(tab) ==
    IF tab = <<>> THEN Zero
    ELSE LET n == Len(tab)
         IN  Plus(SommeEntrees(SubSeq(tab, 1, n - 1)),
                  IF PoidsVide(tab[n].poids) THEN Zero ELSE ValeurEntree(tab[n].poids))

\* C10: after each pass, the total is the sum, over the entries whose weight
\* field is not empty, of ValueNormalizer on the effective weight text;
\* anomalous entries and those after them are added, an unparsable entry
\* adds 0 and the pass goes on.
C10_TotalEstLaSomme ==
    [][TotalRecalcule => champ_total' = SommeEntrees(table')]_vars

\* An unparsable entry, then an anomalous one: both passed, 123.456 added.
C10_Witness ==
    /\ Len(table) >= 2
    /\ table[1].poids = <<"x">>
    /\ table[2].poids = <<"1", "2", "3", ",", "4", "5", "6">>
    /\ etiquette_commentaire = 2
    /\ champ_total = [hi |-> 123, lo |-> 456 * Pow10(Decimales - 3)]

\* The texts the model puts in a weight cell: scanned, typed, pasted.
TextesEntres ==
    {strip(t) : t \in ScanTextes} \cup TextesPoids
    \cup UNION {{lignes[i] : i \in 1..Len(lignes)} : lignes \in Collages}

\* The weight cell a text gives: its WeightString, or the text itself.
PoidsDe(t) ==
    IF formater_ligne(t) \notin {None, <<>>} THEN formater_ligne(t) ELSE t

\* C15: each row's DLC cell is empty, or the expiry date decoded from the
\* text that produced the row's weight cell (some text that gives this
\* weight cell gives this date): no row pairs a weight with the date of
\* another scan.
C15_DLCDuMemeTexte ==
    \A r \in 1..Len(table) :
        \/ table[r].dlc \in {None, <<>>}
        \/ \E t \in TextesEntres :
              /\ table[r].poids = PoidsDe(t)
              /\ table[r].dlc = extraire_dlc_from_scan(t)

\* C16: once no deferred assurer_ligne_vide is waiting (every scan, paste,
\* clearing and edit is complete), the table has at least one row and the
\* weight cell of its last row is blank.
C16_DerniereLigneVide ==
    (\A i \in 1..Len(timers) : timers[i] # "assurer_ligne_vide") =>
        /\ Len(table) >= 1
        /\ table[Len(table)].poids = None
           \/ \A i \in 1..Len(table[Len(table)].poids) :
                 table[Len(table)].poids[i] = " "

\* An edit filled the last row; its deferred calls ran and added a row.
C16_Witness ==
    /\ timers = <<>>
    /\ Len(table) = 3
    /\ table[2].poids = <<"-", "1", " ">>
    /\ table[3].poids = None

\* ------------------------------------------------------------------------
\* Properties of scanning and exporting (checked under SpecScans)
\* ------------------------------------------------------------------------

\* The rows whose weight cell a scan has filled: under SpecScans only
\* inserer_ligne_scannee gives a weight cell an item.
LignesScannees(tab) == {r \in 1..Len(tab) : tab[r].poids # None}

\* The weight cell inserer_ligne_scannee writes for one of the scanner's texts.
PoidsDunScan(cellule) ==
    \E t \in ScanTextes :
        /\ strip(t) # <<>>
        /\ cellule = IF formater_ligne(strip(t)) \notin {None, <<>>}
                     THEN formater_ligne(strip(t)) ELSE strip(t)

\* C13: an insertion of a non-blank scan takes a row of its own, one whose
\* weight cell no scan had filled, puts there the decoded WeightString or,
\* without a match, the scanned text, and leaves the weight cell of every
\* row an earlier scan filled as it was.
C13_ChaqueScanSaLigne ==
    [][table' # table =>
        /\ \A r \in LignesScannees(table) :
              r <= Len(table') /\ table'[r].poids = table[r].poids
        /\ \E r \in LignesScannees(table') \ LignesScannees(table) :
              PoidsDunScan(table'[r].poids)]_vars

\* The cell is blank: no item, or whitespace only.
Blanc(cellule) == cellule = None \/ \A i \in 1..Len(cellule) : cellule[i] = " "

\* The rows an export keeps: those with a weight or a DLC.
Gardees(tab) == {r \in 1..Len(tab) : ~(Blanc(tab[r].poids) /\ Blanc(tab[r].dlc))}

\* The k-th kept row, in table order.
Rang(tab, k) ==
    CHOOSE r \in Gardees(tab) : Cardinality({q \in Gardees(tab) : q < r}) = k - 1

\* The file an export of tab holds: the header line, then a line for each
\* kept row, its weight text and its DLC text.
FichierAttendu(tab) ==
    [i \in 1..(Cardinality(Gardees(tab)) + 1) |->
        IF i = 1 THEN writerow(EnTete)
        ELSE writerow(<<TexteCellule(tab[Rang(tab, i - 1)].poids),
                        TexteCellule(tab[Rang(tab, i - 1)].dlc)>>)]

\* C14: an export writes the header ["Poids en kg", "DLC"], then one row, in
\* table order, for exactly the table rows whose weight cell or DLC cell is
\* not blank, and leaves the table as it was.
C14_ExportCSV ==
    [][csv' # csv => (csv' = FichierAttendu(table) /\ table' = table)]_vars

\* One scanned row exported, the blank last row left out.
C14_Witness ==
    /\ Len(table) = 2
    /\ Blanc(table[2].poids) /\ Blanc(table[2].dlc)
    /\ csv = <<writerow(EnTete),
               <<"\"", "1", "2", "3", ",", "4", "5", "6", "\"", ",",
                 "2", "8", "/", "0", "2", "/", "2", "0", "2", "3">>>>

=============================================================================
